---- MODULE Spec2Model ----
(***************************************************************************)
(* A model of the comunica query-operation pipeline:                       *)
(*   - the Slice query operation actor (ActorQueryOperationSlice), with    *)
(*     the offset/limit transform iterators it puts on its child's stream  *)
(*     and the metadata thunk it wraps around its child's metadata;        *)
(*   - the abstract join actor (ActorRdfJoin): its constructor, test, run  *)
(*     and the static helpers joinVariables and iteratorsHaveMetadata.     *)
(* SpecSlice drives the Slice actor, SpecJoin the join actor.              *)
(***************************************************************************)
EXTENDS Integers, Sequences, FiniteSets, TLC

(***************************************************************************)
(* Bounds of the model.                                                    *)
(***************************************************************************)
\* The longest child stream.
MaxLen == 4
\* The largest Slice start.
MaxStart == 2
\* The largest Slice length.
MaxLength == 2
\* The most entries of a join action.
MaxEntries == 3
\* The most bindings given to one join of bindings.
MaxBindings == 3
\* The most solutions of a path operation under a Seq path.
MaxSolutions == 2
\* The most calls of the Runner's methods.
MaxCalls == 2
\* The most calls of Runner.run among them.
MaxRuns == 1
\* The most bindings of the stream given to the tree serializer.
MaxRows == 2

(***************************************************************************)
(* JavaScript numbers: the integers plus Infinity and NaN, and undefined   *)
(* for a key read from an object that does not have it.                    *)
(***************************************************************************)
Infinity == 1000000
NaN == Infinity + 1
Undefined == Infinity + 2

isFinite(v) == v \notin {Infinity, NaN, Undefined}

Boolean(v) == v \notin {0, NaN, Undefined}

JsAdd(a, b) ==
  IF a = NaN \/ b = NaN THEN NaN
  ELSE IF a = Infinity \/ b = Infinity THEN Infinity
  ELSE a + b

\* a - b for a finite b.
JsSub(a, b) ==
  IF a = NaN \/ b = NaN THEN NaN
  ELSE IF a = Infinity THEN Infinity
  ELSE a - b

JsMul(a, b) ==
  IF a = NaN \/ b = NaN THEN NaN
  ELSE IF (a = Infinity /\ b = 0) \/ (a = 0 /\ b = Infinity) THEN NaN
  ELSE IF a = Infinity \/ b = Infinity THEN Infinity
  ELSE a * b

MathMax(a, b) ==
  IF a = NaN \/ b = NaN THEN NaN
  ELSE IF a >= b THEN a ELSE b

MathMin(a, b) ==
  IF a = NaN \/ b = NaN THEN NaN
  ELSE IF a <= b THEN a ELSE b

(***************************************************************************)
(* Metadata thunks: absent, or a thunk whose promise rejects, or a thunk   *)
(* whose promise resolves to a record of metadata keys.                    *)
(***************************************************************************)
NoMetadata == [kind |-> "none"]
Rejects == [kind |-> "rejects"]
Resolves(m) == [kind |-> "resolves", value |-> m]

VARIABLES
  slicePhase,   \* "idle", "resolved" (an output is at hand), "failed"
  input,        \* the items of the innermost child's stream, as first given
  src,          \* the items the innermost child's stream has not yet handed out
  chain,        \* the transform iterators of the Slice operators, innermost first
  output,       \* the outermost output: type, metadata thunk, variables
  child,        \* the output the mediator gave for the innermost Slice's input
  started       \* whether an item has been requested from the outermost stream

sliceVars == <<slicePhase, input, src, chain, output, child, started>>

VARIABLES
  actor,            \* the join actor's fields: limitEntries, limitEntriesMin
  joinPhase,        \* "idle", "tested", "ran"
  action,           \* the join action the actor was given: its entries
  testReply,        \* what test settled with
  runReply,         \* what run settled with
  getIterationsCalls, \* how many times the subclass's getIterations was called
  getOutputCalls,   \* how many times the subclass's getOutput was called
  getOutputResult,  \* what the subclass's getOutput settled with, once called
  joinedVariables   \* what joinVariables returned for the action

joinVars == <<actor, joinPhase, action, testReply, runReply,
              getIterationsCalls, getOutputCalls, getOutputResult,
              joinedVariables>>

VARIABLES
  joinCall,     \* a call of the static join of bindings: arguments and result
  pathSeq,      \* an operation of the Seq path actor
  runner,       \* the Runner, its init bus and its actors
  http,         \* a request of the native http actor
  serializer,   \* a run of the tree serializer
  dataSource    \* a resolution of a data source descriptor

restVars == <<joinCall, pathSeq, runner, http, serializer, dataSource>>

vars == <<sliceVars, joinVars, restVars>>


(***************************************************************************)
(* ActorQueryOperationSlice                                                *)
(***************************************************************************)
\* Slice patterns: start, and length when present.
Patterns ==
  {[start |-> s] : s \in 0..MaxStart}
    \cup {[start |-> s, length |-> l] : s \in 0..MaxStart, l \in 0..MaxLength}

hasLengthNoZero(pattern) ==
  "length" \in DOMAIN pattern /\ Boolean(pattern.length)

hasLength(pattern) ==
  "length" \in DOMAIN pattern /\ (Boolean(pattern.length) \/ pattern.length = 0)

sliceStreamOptionsOffByOne(pattern) ==
  LET start == pattern.start
      end == IF hasLength(pattern)
             THEN JsSub(JsAdd(pattern.start, pattern.length), 1)
             ELSE Infinity
  IN [offset |-> start, limit |-> MathMax(JsSub(end, start), 0)]

\* The options sliceStream hands to stream.transform.
sliceStreamOptions(pattern) ==
  LET start == pattern.start
      end == IF hasLength(pattern)
             THEN JsSub(JsAdd(pattern.start, pattern.length), 1)
             ELSE Infinity
  IN [offset |-> start, limit |-> MathMax(JsAdd(JsSub(end, start), 1), 0)]

\* The transform iterator stream.transform(options) returns: it has read
\* nothing, and keeps the items it pushed until its consumer takes them.
transform(options) ==
  [offset |-> MathMax(options.offset, 0),
   limit  |-> IF options.limit = Infinity THEN Infinity ELSE MathMax(options.limit, 0),
   closed |-> FALSE,
   buffer |-> <<>>]

sliceMetadataNoFiniteCheck(out, pattern) ==
  IF out.metadata.kind # "resolves" THEN out.metadata
  ELSE
    LET subMetadata == out.metadata.value
        read == IF "totalItems" \in DOMAIN subMetadata
                THEN subMetadata.totalItems ELSE Undefined
        dropped == MathMax(0, JsSub(read, pattern.start))
        totalItems == IF hasLength(pattern)
                      THEN MathMin(dropped, pattern.length) ELSE dropped
    IN Resolves([totalItems |-> totalItems] @@ subMetadata)

sliceMetadataMinZero(out, pattern) ==
  IF out.metadata.kind # "resolves" THEN out.metadata
  ELSE
    LET subMetadata == out.metadata.value
        read == IF "totalItems" \in DOMAIN subMetadata
                THEN subMetadata.totalItems ELSE Undefined
        dropped == MathMin(0, JsSub(read, pattern.start))
        totalItems ==
          IF isFinite(read)
          THEN IF hasLength(pattern)
               THEN MathMin(dropped, pattern.length) ELSE dropped
          ELSE read
    IN Resolves([totalItems |-> totalItems] @@ subMetadata)

sliceMetadataOnlyTotalItems(out, pattern) ==
  IF out.metadata.kind # "resolves" THEN out.metadata
  ELSE
    LET subMetadata == out.metadata.value
        read == IF "totalItems" \in DOMAIN subMetadata
                THEN subMetadata.totalItems ELSE Undefined
        dropped == MathMax(0, JsSub(read, pattern.start))
        totalItems ==
          IF isFinite(read)
          THEN IF hasLength(pattern)
               THEN MathMin(dropped, pattern.length) ELSE dropped
          ELSE read
    IN Resolves([totalItems |-> totalItems])

\* The metadata thunk of the Slice output: none when the child has none,
\* otherwise the child's metadata with totalItems sliced when it is finite.
sliceMetadata(out, pattern) ==
  IF out.metadata.kind # "resolves" THEN out.metadata
  ELSE
    LET subMetadata == out.metadata.value
        read == IF "totalItems" \in DOMAIN subMetadata
                THEN subMetadata.totalItems ELSE Undefined
        dropped == MathMax(0, JsSub(read, pattern.start))
        totalItems ==
          IF isFinite(read)
          THEN IF hasLength(pattern)
               THEN MathMin(dropped, pattern.length) ELSE dropped
          ELSE read
    IN Resolves([totalItems |-> totalItems] @@ subMetadata)

\* What the mediator may resolve the innermost Slice's input to.
Inputs == {[i \in 1..n |-> i] : n \in 0..MaxLen}

VariablesLists == {<<>>, <<"?s", "?o">>}

TotalItemsValues == (0..MaxLen) \cup {Infinity}

SourceMetadatas ==
  {NoMetadata, Rejects, Resolves([pageSize |-> 10])}
    \cup {Resolves([totalItems |-> t, pageSize |-> 10]) : t \in TotalItemsValues}

ChildOutputs ==
  {[type |-> "bindings", variables |-> v, metadata |-> m] :
      v \in VariablesLists, m \in SourceMetadatas}
    \cup {[type |-> "quads", metadata |-> m] : m \in SourceMetadatas}
    \cup {[type |-> "boolean"]}

NoOutput == [type |-> "none"]

\* runOperation, up to its await: the mediator resolves pattern.input.
mediateInput ==
  /\ slicePhase = "idle"
  /\ \E X \in Inputs, o \in ChildOutputs :
        /\ o.type = "boolean" => (X = <<>>)
        /\ input' = X
        /\ src' = X
        /\ output' = o
        /\ child' = o
  /\ slicePhase' = "resolved"
  /\ UNCHANGED <<chain, started, joinVars, restVars>>

\* runOperation, from its await on: the output is sliced, or the type is
\* refused. A Slice whose input is a Slice gets the inner Slice's output.
runOperation ==
  /\ slicePhase = "resolved"
  /\ ~started
  /\ Len(chain) <= 1
  /\ \E pattern \in Patterns :
        LET metadata == sliceMetadata(output, pattern) IN
        IF output.type = "bindings"
        THEN /\ chain' = Append(chain, transform(sliceStreamOptions(pattern))
                                          @@ [pattern |-> pattern])
             /\ output' = [type |-> "bindings", metadata |-> metadata,
                           variables |-> output.variables]
             /\ UNCHANGED slicePhase
        ELSE IF output.type = "quads"
        THEN /\ chain' = Append(chain, transform(sliceStreamOptions(pattern))
                                          @@ [pattern |-> pattern])
             /\ output' = [type |-> "quads", metadata |-> metadata]
             /\ UNCHANGED slicePhase
        ELSE /\ slicePhase' = "failed"
             /\ UNCHANGED <<chain, output>>
  /\ UNCHANGED <<input, src, child, started, joinVars, restVars>>

\* The items the k-th transform iterator's source holds ready.
sourceItems(k) == IF k = 1 THEN src ELSE chain[k - 1].buffer

\* Whether the k-th transform iterator's source has ended.
sourceEnded(k) ==
  IF k = 1 THEN src = <<>>
  ELSE chain[k - 1].closed /\ chain[k - 1].buffer = <<>>

\* One item through an offset/limit transform iterator: skipped while the
\* offset lasts, pushed otherwise; the iterator closes on its last item.
readAndTransform(it, item) ==
  IF it.offset # 0
  THEN [it EXCEPT !.offset = @ - 1]
  ELSE LET limit == JsSub(it.limit, 1)
       IN [it EXCEPT !.buffer = Append(@, item), !.limit = limit,
                     !.closed = (limit = 0)]

\* Closing a transform iterator destroys its source, and so all before it.
destroySources(ch, k) ==
  [i \in 1..Len(ch) |->
     IF i < k THEN [ch[i] EXCEPT !.closed = TRUE, !.buffer = <<>>] ELSE ch[i]]

\* The k-th transform iterator reads one item from its source.
ReadStage(k) ==
  /\ slicePhase = "resolved"
  /\ ~chain[k].closed
  /\ chain[k].limit # 0
  /\ sourceItems(k) # <<>>
  /\ LET it == readAndTransform(chain[k], Head(sourceItems(k)))
         taken == IF k = 1 THEN chain
                  ELSE [chain EXCEPT ![k - 1].buffer = Tail(@)]
         read == [taken EXCEPT ![k] = it]
     IN /\ chain' = IF it.closed THEN destroySources(read, k) ELSE read
        /\ src' = IF it.closed THEN <<>>
                  ELSE IF k = 1 THEN Tail(src) ELSE src
  /\ started' = TRUE
  /\ UNCHANGED <<slicePhase, input, output, child, joinVars, restVars>>

\* The k-th transform iterator closes: its limit is 0 or its source ended.
CloseStage(k) ==
  /\ slicePhase = "resolved"
  /\ ~chain[k].closed
  /\ chain[k].limit = 0 \/ sourceEnded(k)
  /\ chain' = destroySources([chain EXCEPT ![k].closed = TRUE], k)
  /\ src' = <<>>
  /\ started' = TRUE
  /\ UNCHANGED <<slicePhase, input, output, child, joinVars, restVars>>

Read == \E k \in 1..Len(chain) : ReadStage(k)

Close == \E k \in 1..Len(chain) : CloseStage(k)

RECURSIVE drain(_, _)
drain(it, items) ==
  IF it.closed \/ it.limit = 0 \/ items = <<>> THEN it.buffer
  ELSE drain(readAndTransform(it, Head(items)), Tail(items))

\* The items the stream sliceStream returns delivers when read to its end.
sliceStream(items, pattern) ==
  drain(transform(sliceStreamOptions(pattern)), items)

\* The items delivered by the outermost stream so far, and whether it ended.
Delivered == IF chain = <<>> THEN <<>> ELSE chain[Len(chain)].buffer

Ended == chain # <<>> /\ chain[Len(chain)].closed

SliceNext == mediateInput \/ runOperation \/ Read \/ Close

(***************************************************************************)
(* ActorRdfJoin                                                            *)
(***************************************************************************)
\* The constructor's optional arguments limitEntries and limitEntriesMin.
LimitEntriesValues == {0, 2, 3}

ConstructorArgs ==
  {[none |-> TRUE]}
    \cup {[limitEntries |-> n] : n \in LimitEntriesValues}
    \cup {[limitEntriesMin |-> b] : b \in BOOLEAN}
    \cup {[limitEntries |-> n, limitEntriesMin |-> b] :
            n \in LimitEntriesValues, b \in BOOLEAN}

constructor(args) ==
  [limitEntries |-> IF "limitEntries" \in DOMAIN args
                    THEN args.limitEntries ELSE Infinity,
   limitEntriesMin |-> IF "limitEntriesMin" \in DOMAIN args
                       THEN args.limitEntriesMin ELSE FALSE]

\* The entries a join action may carry: each kind of metadata thunk on an
\* entry with the variables ?b ?a, other variables lists on an entry with
\* metadata, and an entry that is not a bindings output.
EntryMetadatas ==
  {NoMetadata, Rejects, Resolves([pageSize |-> 10])}
    \cup {Resolves([totalItems |-> t]) : t \in {0, 3, Infinity}}

EntryVariables == {<<"?a", "?c">>, <<>>}

Entries ==
  {[type |-> "bindings", bindingsStream |-> "entry",
    variables |-> <<"?b", "?a">>, metadata |-> m] : m \in EntryMetadatas}
    \cup {[type |-> "bindings", bindingsStream |-> "entry", variables |-> v,
            metadata |-> Resolves([totalItems |-> 3])] : v \in EntryVariables}
    \cup {[type |-> "quads", quadStream |-> "entry", metadata |-> NoMetadata]}

RECURSIVE SeqsUpTo(_, _)
SeqsUpTo(S, n) ==
  IF n = 0 THEN {<<>>}
  ELSE LET shorter == SeqsUpTo(S, n - 1)
       IN shorter \cup {Append(q, e) : q \in {r \in shorter : Len(r) = n - 1},
                                        e \in S}

Actions == {[entries |-> es] : es \in SeqsUpTo(Entries, MaxEntries)}

\* What the subclass's getIterations and getOutput may settle with.
GetIterationsResults == {[ok |-> TRUE, value |-> 7], [ok |-> FALSE]}

GetOutputResults ==
  {[ok |-> FALSE]}
    \cup {[ok |-> TRUE,
            value |-> [type |-> "bindings", bindingsStream |-> "joined",
                       variables |-> <<"?a", "?b", "?c">>, metadata |-> m]] :
            m \in {NoMetadata, Rejects, Resolves([pageSize |-> 10]),
                   Resolves([totalItems |-> 5, pageSize |-> 10])}}

RECURSIVE concatAll(_)
concatAll(lists) ==
  IF lists = <<>> THEN <<>> ELSE Head(lists) \o concatAll(Tail(lists))

\* [...new Set(list)]: the first occurrence of each element, in order.
RECURSIVE uniqueInOrder(_)
uniqueInOrder(list) ==
  IF list = <<>> THEN <<>>
  ELSE LET front == uniqueInOrder(SubSeq(list, 1, Len(list) - 1))
           last == list[Len(list)]
       IN IF \E i \in 1..Len(front) : front[i] = last
          THEN front ELSE Append(front, last)

Threw == [threw |-> TRUE]
Returned(v) == [threw |-> FALSE, value |-> v]

joinVariablesWithDuplicates(a) ==
  IF \E i \in 1..Len(a.entries) : "variables" \notin DOMAIN a.entries[i]
  THEN Threw
  ELSE Returned(concatAll([i \in 1..Len(a.entries) |-> a.entries[i].variables]))

\* joinVariables: the entries' variables lists concatenated, without
\* duplicates; spreading the variables of an entry that has none throws.
joinVariables(a) ==
  IF \E i \in 1..Len(a.entries) : "variables" \notin DOMAIN a.entries[i]
  THEN Threw
  ELSE LET variables == [i \in 1..Len(a.entries) |-> a.entries[i].variables]
           withDuplicates == concatAll(variables)
       IN Returned(uniqueInOrder(withDuplicates))

\* iteratorsHaveMetadata: every entry has a metadata thunk that resolves to
\* metadata holding the key.
iteratorsHaveMetadata(a, key) ==
  \A i \in 1..Len(a.entries) :
    /\ a.entries[i].metadata.kind # "none"
    /\ a.entries[i].metadata.kind = "resolves"
    /\ key \in DOMAIN a.entries[i].metadata.value

limitViolatedUpperOnly(act, n) == n > act.limitEntries

\* The condition under which test throws for the number of entries.
limitViolated(act, n) ==
  IF act.limitEntriesMin THEN n < act.limitEntries ELSE n > act.limitEntries

Passed(iterations) == [passed |-> TRUE, iterations |-> iterations]
Failed(error) == [passed |-> FALSE, error |-> error]

testResultNoMetadataCheck(act, a, iterations) ==
  IF Len(a.entries) <= 1 THEN Passed(0)
  ELSE IF limitViolated(act, Len(a.entries)) THEN Failed("limit")
  ELSE IF \E i \in 1..Len(a.entries) : a.entries[i].type # "bindings"
       THEN Failed("type")
  ELSE IF iterations.ok THEN Passed(iterations.value)
  ELSE Failed("getIterations")

\* What test settles with, given what getIterations would settle with.
testResult(act, a, iterations) ==
  IF Len(a.entries) <= 1 THEN Passed(0)
  ELSE IF limitViolated(act, Len(a.entries)) THEN Failed("limit")
  ELSE IF \E i \in 1..Len(a.entries) : a.entries[i].type # "bindings"
       THEN Failed("type")
  ELSE IF ~iteratorsHaveMetadata(a, "totalItems") THEN Passed(Infinity)
  ELSE IF iterations.ok THEN Passed(iterations.value)
  ELSE Failed("getIterations")

\* Whether test gets as far as calling getIterations.
testCallsGetIterations(act, a) ==
  /\ Len(a.entries) > 1
  /\ ~limitViolated(act, Len(a.entries))
  /\ \A i \in 1..Len(a.entries) : a.entries[i].type = "bindings"
  /\ iteratorsHaveMetadata(a, "totalItems")

RECURSIVE reduceProduct(_, _)
reduceProduct(acc, metadatas) ==
  IF metadatas = <<>> THEN acc
  ELSE reduceProduct(JsMul(acc, Head(metadatas).totalItems), Tail(metadatas))

totalItemsFromZero(a) ==
  reduceProduct(0, [i \in 1..Len(a.entries) |-> a.entries[i].metadata.value])

\* run's totalItems(): the product of the entries' totalItems.
totalItems(a) ==
  reduceProduct(1, [i \in 1..Len(a.entries) |-> a.entries[i].metadata.value])

emptyOutput ==
  [type |-> "bindings", bindingsStream |-> "empty",
   metadata |-> Resolves([totalItems |-> 0]), variables |-> <<>>]

trivialOutputAlwaysEmpty(a) == emptyOutput

\* What run returns for 0 or 1 entries.
trivialOutput(a) ==
  IF Len(a.entries) = 0 THEN emptyOutput ELSE a.entries[1]

Resolved(out) == [settled |-> "resolved", output |-> out]
Rejected == [settled |-> "rejected"]

\* What run settles with for 2 or more entries, given what getOutput
\* settled with.
joinOutput(a, result) ==
  IF iteratorsHaveMetadata(a, "totalItems")
  THEN IF ~result.ok THEN Rejected
       ELSE LET unwrapped == result.value
                oldMetadata == unwrapped.metadata
            IN IF oldMetadata.kind = "resolves"
               THEN Resolved([unwrapped EXCEPT !.metadata =
                      IF "totalItems" \in DOMAIN oldMetadata.value
                      THEN oldMetadata
                      ELSE Resolves([totalItems |-> totalItems(a)]
                                      @@ oldMetadata.value)])
               ELSE IF oldMetadata.kind = "rejects"
               THEN Resolved(unwrapped)
               ELSE Resolved([unwrapped EXCEPT !.metadata =
                      Resolves([totalItems |-> totalItems(a)])])
  ELSE IF result.ok THEN Resolved(result.value) ELSE Rejected

NoAction == [entries |-> <<>>]
Pending == [settled |-> "pending"]
NotCalled == [called |-> FALSE]

\* The actor is given a join action: test.
test ==
  /\ joinPhase = "idle"
  /\ \E a \in Actions, iterations \in GetIterationsResults :
        /\ action' = a
        /\ testReply' = testResult(actor, a, iterations)
        /\ getIterationsCalls' =
             IF testCallsGetIterations(actor, a) THEN 1 ELSE 0
  /\ joinPhase' = "tested"
  /\ UNCHANGED <<actor, runReply, getOutputCalls, getOutputResult,
                 joinedVariables, sliceVars, restVars>>

\* The mediator invokes run only on an actor whose test passed.
mediatorRuns == joinPhase = "tested" /\ testReply.passed

\* The actor runs the join action it was tested with.
run ==
  /\ mediatorRuns
  /\ IF Len(action.entries) <= 1
     THEN /\ runReply' = Resolved(trivialOutput(action))
          /\ UNCHANGED <<getOutputCalls, getOutputResult>>
     ELSE /\ \E result \in GetOutputResults :
               /\ runReply' = joinOutput(action, result)
               /\ getOutputResult' = [called |-> TRUE, result |-> result]
          /\ getOutputCalls' = getOutputCalls + 1
  /\ joinPhase' = "ran"
  /\ UNCHANGED <<actor, action, testReply, getIterationsCalls,
                 joinedVariables, sliceVars, restVars>>

\* The static joinVariables is applied to the action.
callJoinVariables ==
  /\ joinPhase # "idle"
  /\ ~joinedVariables.called
  /\ joinedVariables' = [called |-> TRUE, result |-> joinVariables(action)]
  /\ UNCHANGED <<actor, joinPhase, action, testReply, runReply,
                 getIterationsCalls, getOutputCalls, getOutputResult,
                 sliceVars, restVars>>

JoinNext == test \/ run \/ callJoinVariables

(***************************************************************************)
(* ActorRdfJoin.join: the join of bindings                                 *)
(***************************************************************************)
\* Terms, equal when they are structurally equal.
Terms ==
  {[termType |-> "NamedNode", value |-> "a"],
   [termType |-> "NamedNode", value |-> "b"],
   [termType |-> "Literal", value |-> "a"]}

equals(left, right) ==
  left.termType = right.termType /\ left.value = right.value

\* Bindings: immutable maps from variables to terms.
AllBindingsMaps == UNION {[D -> Terms] : D \in SUBSET {"?x", "?y"}}

mergerNoCheck(left, right) == Returned(left)

mergerAlwaysThrows(left, right) == Threw

\* The merger join gives to mergeWith: the left term, or the join failure.
merger(left, right) ==
  IF ~equals(left, right) THEN Threw ELSE Returned(left)

\* acc.mergeWith(merger, val): a new map with the entries of both, the
\* merger deciding the keys both hold; what the merger throws is thrown on.
mergeWith(acc, val) ==
  IF \E k \in DOMAIN acc \cap DOMAIN val : merger(acc[k], val[k]).threw
  THEN Threw
  ELSE Returned([k \in DOMAIN acc \cup DOMAIN val |->
                   IF k \notin DOMAIN acc THEN val[k]
                   ELSE IF k \notin DOMAIN val THEN acc[k]
                   ELSE merger(acc[k], val[k]).value])

RECURSIVE reduceMergeWith(_, _)
reduceMergeWith(acc, rest) ==
  IF rest = <<>> THEN Returned(acc)
  ELSE LET merged == mergeWith(acc, Head(rest))
       IN IF merged.threw THEN Threw
          ELSE reduceMergeWith(merged.value, Tail(rest))

JoinNull == [null |-> TRUE]
Joined(b) == [null |-> FALSE, bindings |-> b]

\* join: the bindings reduced with mergeWith, null when anything is thrown;
\* reduce without an initial value throws on no bindings at all.
join(bindings) ==
  LET reduced == IF bindings = <<>> THEN Threw
                 ELSE reduceMergeWith(Head(bindings), Tail(bindings))
  IN IF reduced.threw THEN JoinNull ELSE Joined(reduced.value)

\* The static join is applied to some bindings; the maps given are
\* immutable, and are after the call what they were before it.
callJoin ==
  /\ ~joinCall.called
  /\ \E bindings \in SeqsUpTo(AllBindingsMaps, MaxBindings) :
        joinCall' = [called |-> TRUE, args |-> bindings, after |-> bindings,
                     result |-> join(bindings)]
  /\ UNCHANGED <<sliceVars, joinVars, pathSeq, runner,
               http, serializer, dataSource>>

BindingsNext == callJoin

(***************************************************************************)
(* ActorQueryOperationPathSeq                                              *)
(***************************************************************************)
NamedNodes == {t \in Terms : t.termType = "NamedNode"}

Variable(name) == [termType |-> "Variable", value |-> name]

\* termToString: a variable is written with its question mark, a named node
\* as its value.
termToString(term) ==
  IF term.termType = "Variable" THEN "?" \o term.value ELSE term.value

createPathSwapped(subject, predicate, object, graph) ==
  [type |-> "path", subject |-> object, predicate |-> predicate,
   object |-> subject, graph |-> graph]

createPath(subject, predicate, object, graph) ==
  [type |-> "path", subject |-> subject, predicate |-> predicate,
   object |-> object, graph |-> graph]

\* The Seq paths an operation is run on.
SeqPaths ==
  {createPath(s, [type |-> "seq", left |-> [type |-> "link", iri |-> l],
                  right |-> [type |-> "link", iri |-> r]], o, g) :
     s \in {Variable("s"), [termType |-> "NamedNode", value |-> "a"]},
     l \in {"l", "r"},
     r \in {"r"},
     o \in {Variable("o"), [termType |-> "NamedNode", value |-> "b"]},
     g \in {[termType |-> "DefaultGraph", value |-> ""],
            [termType |-> "NamedNode", value |-> "a"]}}

\* generateVariable of the abstract path actor: a variable the path does not
\* hold.
generateVariable(path) ==
  CHOOSE v \in {Variable("v"), Variable("s"), Variable("o")} :
    v \notin {path.subject, path.object, path.graph}

\* The variables of a path operation: its subject and object where they are
\* variables.
pathVariables(operation) ==
  uniqueInOrder(
    (IF operation.subject.termType = "Variable"
     THEN <<termToString(operation.subject)>> ELSE <<>>)
    \o (IF operation.object.termType = "Variable"
        THEN <<termToString(operation.object)>> ELSE <<>>))

Range(list) == {list[i] : i \in 1..Len(list)}

\* The lists that keep some of the elements of a list, in its order.
RECURSIVE SubLists(_)
SubLists(list) ==
  IF list = <<>> THEN {<<>>}
  ELSE LET rest == SubLists(Tail(list))
       IN rest \cup {<<Head(list)>> \o r : r \in rest}

\* What the query operation mediator may resolve a path operation with:
\* solutions over the variables the output names, which are the operation's
\* or only some of them, or an output that is no bindings output.
SubOperationOutputs(operation) ==
  {[type |-> "bindings", variables |-> o.variables,
    bindingsStream |-> o.solutions] :
     o \in UNION {{[variables |-> variables, solutions |-> solutions] :
                     solutions \in SeqsUpTo([Range(variables) -> NamedNodes],
                                            MaxSolutions)} :
                    variables \in SubLists(pathVariables(operation))}}
    \cup {[type |-> "boolean"]}

\* ActorQueryOperation.getSafeBindings: the output, or a throw when it is
\* no bindings output.
getSafeBindings(op) ==
  IF op.type = "bindings" THEN Returned(op) ELSE Threw

RECURSIVE joinWithEach(_, _)
joinWithEach(left, rights) ==
  IF rights = <<>> THEN <<>>
  ELSE LET joined == join(<<left, Head(rights)>>)
       IN (IF joined.null THEN <<>> ELSE <<joined.bindings>>)
            \o joinWithEach(left, Tail(rights))

RECURSIVE joinEach(_, _)
joinEach(lefts, rights) ==
  IF lefts = <<>> THEN <<>>
  ELSE joinWithEach(Head(lefts), rights) \o joinEach(Tail(lefts), rights)

\* What the join mediator resolves a join of two entries with: the joined
\* solutions, under the join variables of the entries.
mediatorJoinOutput(joinAction) ==
  [type |-> "bindings",
   variables |-> joinVariables(joinAction).value,
   bindingsStream |-> joinEach(joinAction.entries[1].bindingsStream,
                               joinAction.entries[2].bindingsStream)]

\* item.delete(varName)
delete(item, varName) == [k \in DOMAIN item \ {varName} |-> item[k]]

\* variables.indexOf(varName), from 0, -1 when absent.
indexOf(variables, varName) ==
  IF \E i \in 1..Len(variables) : variables[i] = varName
  THEN (CHOOSE i \in 1..Len(variables) :
          /\ variables[i] = varName
          /\ \A j \in 1..(i - 1) : variables[j] # varName) - 1
  ELSE -1

spliceKeepsAll(variables, start) == variables

\* variables.splice(start, 1): a negative start counts from the end.
splice(variables, start) ==
  LET from == IF start < 0 THEN MathMax(Len(variables) + start, 0) ELSE start
  IN [i \in 1..(IF from < Len(variables) THEN Len(variables) - 1
                ELSE Len(variables)) |->
        IF i <= from THEN variables[i] ELSE variables[i + 1]]

\* runOperation, up to its first await: the variable is generated and both
\* path operations are given to the mediator.
runOperationSeq ==
  /\ ~pathSeq.called
  /\ \E path \in SeqPaths :
       LET variable == generateVariable(path)
           first == createPath(path.subject, path.predicate.left, variable,
                               path.graph)
           second == createPath(variable, path.predicate.right, path.object,
                                path.graph)
       IN pathSeq' = [called |-> TRUE, pc |-> "mediating", path |-> path,
                      variable |-> variable,
                      varName |-> termToString(variable),
                      subOperations |-> <<Pending, Pending>>,
                      events |-> <<[event |-> "mediate", operation |-> first],
                                   [event |-> "mediate", operation |-> second],
                                   [event |-> "await"]>>]
  /\ UNCHANGED <<sliceVars, joinVars, joinCall, runner,
               http, serializer, dataSource>>

\* A path operation resolves. When it is the second to, Promise.all resolves
\* and runOperation goes on: the outputs are taken as bindings outputs, which
\* may throw, and the join of the two is given to the join mediator.
subOperationResolves ==
  /\ pathSeq.called
  /\ \E i \in 1..2 :
       /\ pathSeq.subOperations[i] = Pending
       /\ \E op \in SubOperationOutputs(pathSeq.events[i].operation) :
            LET settled == [pathSeq.subOperations EXCEPT ![i] = Resolved(op)]
                safe == [j \in 1..2 |-> getSafeBindings(settled[j].output)]
            IN IF pathSeq.pc = "mediating"
                    /\ \A j \in 1..2 : settled[j].settled = "resolved"
               THEN IF \E j \in 1..2 : safe[j].threw
                    THEN pathSeq' = [pathSeq EXCEPT !.subOperations = settled,
                                                    !.pc = "failed"]
                    ELSE pathSeq' =
                           [pathSeq EXCEPT
                              !.subOperations = settled,
                              !.pc = "joining",
                              !.events = Append(@,
                                 [event |-> "join",
                                  entries |-> <<safe[1].value, safe[2].value>>])]
               ELSE pathSeq' = [pathSeq EXCEPT !.subOperations = settled]
  /\ UNCHANGED <<sliceVars, joinVars, joinCall, runner,
               http, serializer, dataSource>>

\* A path operation rejects: Promise.all rejects with it and so does
\* runOperation, when it has not already.
subOperationRejects ==
  /\ pathSeq.called
  /\ \E i \in 1..2 :
       /\ pathSeq.subOperations[i] = Pending
       /\ pathSeq' = [pathSeq EXCEPT
                        !.subOperations[i] = Rejected,
                        !.pc = IF @ = "mediating" THEN "failed" ELSE @]
  /\ UNCHANGED <<sliceVars, joinVars, joinCall, runner,
               http, serializer, dataSource>>

\* The join resolves: the generated variable is deleted from every solution
\* and spliced out of the variables, and the output is returned.
mediatorJoinResolves ==
  /\ pathSeq.called
  /\ pathSeq.pc = "joining"
  /\ LET joinAction == [entries |-> pathSeq.events[Len(pathSeq.events)].entries]
         joined == getSafeBindings(mediatorJoinOutput(joinAction)).value
         bindingsStream == [i \in 1..Len(joined.bindingsStream) |->
                              delete(joined.bindingsStream[i], pathSeq.varName)]
         indexOfVar == indexOf(joined.variables, pathSeq.varName)
         variables == splice(joined.variables, indexOfVar)
     IN pathSeq' = [called |-> TRUE, pc |-> "done", path |-> pathSeq.path,
                    variable |-> pathSeq.variable, varName |-> pathSeq.varName,
                    subOperations |-> pathSeq.subOperations,
                    events |-> pathSeq.events,
                    join |-> joined,
                    output |-> [type |-> "bindings",
                                bindingsStream |-> bindingsStream,
                                variables |-> variables]]
  /\ UNCHANGED <<sliceVars, joinVars, joinCall, runner,
               http, serializer, dataSource>>

\* The join rejects, and so does runOperation.
mediatorJoinRejects ==
  /\ pathSeq.called
  /\ pathSeq.pc = "joining"
  /\ pathSeq' = [pathSeq EXCEPT !.pc = "failed"]
  /\ UNCHANGED <<sliceVars, joinVars, joinCall, runner,
               http, serializer, dataSource>>

PathSeqNext ==
  \/ runOperationSeq
  \/ subOperationResolves
  \/ subOperationRejects
  \/ mediatorJoinResolves
  \/ mediatorJoinRejects

(***************************************************************************)
(* Runner                                                                  *)
(***************************************************************************)
\* The actors of the workflow; all of them are subscribed to the init bus.
RunnerActors == {"actor1", "actor2"}

\* The Runner as constructed with a bus and actors: no method called yet.
RunnerConstructed ==
  [busInit |-> RunnerActors,
   actors |-> RunnerActors,
   calls |-> <<>>,
   initializeCalls |-> [a \in RunnerActors |-> 0]]

\* Bus.publish: for each actor of the bus, the actor with its pending test
\* reply. The test is invoked, its promise is in the reply.
publish(bus) == [a \in bus |-> "pending"]

\* Promise.all of promises: rejected with the first rejection, resolved
\* when all are, pending until then.
PromiseAll(promises) ==
  IF \E a \in DOMAIN promises : promises[a] = "rejected" THEN "rejected"
  ELSE IF \A a \in DOMAIN promises : promises[a] = "resolved" THEN "resolved"
  ELSE "pending"

\* Runner.initialize: initialize is invoked on every actor.
initialize ==
  /\ Len(runner.calls) < MaxCalls
  /\ runner' = [runner EXCEPT
                  !.calls = Append(@, [method |-> "initialize",
                                       settled |-> "pending",
                                       promises |-> [a \in runner.actors |->
                                                       "pending"]]),
                  !.initializeCalls = [a \in RunnerActors |->
                                         IF a \in runner.actors
                                         THEN @[a] + 1 ELSE @[a]]]
  /\ UNCHANGED <<sliceVars, joinVars, joinCall, pathSeq,
               http, serializer, dataSource>>

\* Runner.deinitialize: deinitialize is invoked on every actor.
deinitialize ==
  /\ Len(runner.calls) < MaxCalls
  /\ runner' = [runner EXCEPT
                  !.calls = Append(@, [method |-> "deinitialize",
                                       settled |-> "pending",
                                       promises |-> [a \in runner.actors |->
                                                       "pending"]])]
  /\ UNCHANGED <<sliceVars, joinVars, joinCall, pathSeq,
               http, serializer, dataSource>>

\* An actor settles its initialize or deinitialize, and with it Promise.all
\* of the call may.
actorSettles ==
  /\ \E c \in 1..Len(runner.calls), a \in RunnerActors,
        outcome \in {"resolved", "rejected"} :
       /\ runner.calls[c].method \in {"initialize", "deinitialize"}
       /\ runner.calls[c].promises[a] = "pending"
       /\ LET promises == [runner.calls[c].promises EXCEPT ![a] = outcome]
          IN runner' = [runner EXCEPT
                          !.calls[c].promises = promises,
                          !.calls[c].settled =
                             IF @ = "pending" THEN PromiseAll(promises) ELSE @]
  /\ UNCHANGED <<sliceVars, joinVars, joinCall, pathSeq,
               http, serializer, dataSource>>

\* Runner.run, up to its await: the action is published on the init bus.
\* The replies are objects holding an actor and the promise of its test:
\* Promise.all has no promise among them to wait for.
runnerRun ==
  /\ Len(runner.calls) < MaxCalls
  /\ Cardinality({c \in 1..Len(runner.calls) :
                    runner.calls[c].method = "run"}) < MaxRuns
  /\ runner' = [runner EXCEPT
                  !.calls = Append(@, [method |-> "run",
                                       settled |-> "pending",
                                       pc |-> "published",
                                       tests |-> publish(runner.busInit),
                                       testAtRun |-> [a \in runner.busInit |->
                                                        "not run"],
                                       promises |-> [a \in runner.busInit |->
                                                       "not run"]])]
  /\ UNCHANGED <<sliceVars, joinVars, joinCall, pathSeq,
               http, serializer, dataSource>>

\* An actor's test settles, passed or failed, before Runner.run goes on;
\* nothing looks at a test that settles later.
testSettles ==
  /\ \E c \in 1..Len(runner.calls), a \in RunnerActors,
        outcome \in {"passed", "failed"} :
       /\ runner.calls[c].method = "run"
       /\ runner.calls[c].pc = "published"
       /\ runner.calls[c].tests[a] = "pending"
       /\ runner' = [runner EXCEPT !.calls[c].tests[a] = outcome]
  /\ UNCHANGED <<sliceVars, joinVars, joinCall, pathSeq,
               http, serializer, dataSource>>

\* Runner.run goes on after its await: runObservable is invoked on the actor
\* of every reply.
runContinues ==
  /\ \E c \in 1..Len(runner.calls) :
       /\ runner.calls[c].method = "run"
       /\ runner.calls[c].pc = "published"
       /\ runner' = [runner EXCEPT
                       !.calls[c].pc = "running",
                       !.calls[c].testAtRun = runner.calls[c].tests,
                       !.calls[c].promises = [a \in DOMAIN @ |-> "pending"]]
  /\ UNCHANGED <<sliceVars, joinVars, joinCall, pathSeq,
               http, serializer, dataSource>>

\* An actor's runObservable settles, and with it the promise of Runner.run
\* may.
runObservableSettles ==
  /\ \E c \in 1..Len(runner.calls), a \in RunnerActors,
        outcome \in {"resolved", "rejected"} :
       /\ runner.calls[c].method = "run"
       /\ runner.calls[c].promises[a] = "pending"
       /\ LET promises == [runner.calls[c].promises EXCEPT ![a] = outcome]
          IN runner' = [runner EXCEPT
                          !.calls[c].promises = promises,
                          !.calls[c].settled =
                             IF @ = "pending" THEN PromiseAll(promises) ELSE @]
  /\ UNCHANGED <<sliceVars, joinVars, joinCall, pathSeq,
               http, serializer, dataSource>>

RunnerNext ==
  \/ initialize
  \/ deinitialize
  \/ actorSettles
  \/ runnerRun
  \/ testSettles
  \/ runContinues
  \/ runObservableSettles

(***************************************************************************)
(* ActorHttpNative                                                         *)
(***************************************************************************)
\* createUserAgent: the user agent of the actor.
userAgent == "Comunica/actor-http-native"

\* Headers: a map from lower-cased names to values.
NoHeaders == <<>>

toLowerCase(name) ==
  IF name = "User-Agent" THEN "user-agent"
  ELSE IF name = "Content-Location" THEN "content-location"
  ELSE name

\* new Headers(init): the entries of init under their lower-cased names,
\* none when init is undefined.
Headers(init) ==
  [name \in {toLowerCase(k) : k \in DOMAIN init} |->
     init[CHOOSE k \in DOMAIN init : toLowerCase(k) = name]]

has(headers, name) == toLowerCase(name) \in DOMAIN headers

\* headers.append(name, value), of a name the headers do not hold.
append(headers, name, value) ==
  [k \in DOMAIN headers \cup {toLowerCase(name)} |->
     IF k = toLowerCase(name) THEN value ELSE headers[k]]

\* Object.assign(target, source)
ObjectAssign(target, source) ==
  [k \in DOMAIN target \cup DOMAIN source |->
     IF k \in DOMAIN source THEN source[k] ELSE target[k]]

\* What a caller may give as headers, in init or in a Request.
HeadersInits ==
  {NoHeaders,
   "accept" :> "text/turtle",
   ("accept" :> "text/turtle") @@ ("user-agent" :> "caller"),
   "user-agent" :> "caller",
   "User-Agent" :> "caller"}

RequestedUrl == "http://example.org/"

\* What a caller may give as input: a string, or a Request with its url
\* and, when it has some, its Headers.
HttpInputs ==
  {[string |-> TRUE, value |-> RequestedUrl],
   [string |-> FALSE, request |-> [url |-> RequestedUrl]],
   [string |-> FALSE,
    request |-> [url |-> RequestedUrl, method |-> "HEAD"]]}
    \cup {[string |-> FALSE,
           request |-> [url |-> RequestedUrl, headers |-> Headers(h)]] :
            h \in {"accept" :> "text/turtle", "User-Agent" :> "caller"}}

\* What a caller may give as init.
HttpInits ==
  {<<>>,
   [method |-> "HEAD"],
   [withCredentials |-> FALSE],
   [withCredentials |-> TRUE, auth |-> "init:secret"],
   [auth |-> "init:secret"]}
    \cup {[headers |-> h] : h \in HeadersInits}
    \cup {[headers |-> "User-Agent" :> "caller", auth |-> "init:secret"]}

KEY_CONTEXT_INCLUDE_CREDENTIALS == "@comunica/bus-http:include-credentials"
KEY_CONTEXT_AUTH == "@comunica/bus-http:auth"

\* What a caller may give as context.
HttpContexts ==
  {<<>>,
   KEY_CONTEXT_INCLUDE_CREDENTIALS :> TRUE,
   KEY_CONTEXT_INCLUDE_CREDENTIALS :> FALSE,
   KEY_CONTEXT_AUTH :> "context:secret",
   (KEY_CONTEXT_INCLUDE_CREDENTIALS :> TRUE)
     @@ (KEY_CONTEXT_AUTH :> "context:secret")}

\* The actions of the http bus: an input, and init and a context when given.
HttpActions ==
  {[input |-> i] : i \in HttpInputs}
    \cup {[input |-> i, init |-> init] :
            i \in HttpInputs, init \in HttpInits}
    \cup {[input |-> i, context |-> context] :
            i \in HttpInputs, context \in HttpContexts}
    \cup {[input |-> i, init |-> init, context |-> context] :
            i \in HttpInputs, init \in HttpInits, context \in HttpContexts}

\* run, up to the promise it returns: the options of the request.
requestOptions(a) ==
  LET fromInput ==
        IF ~a.input.string
        THEN ObjectAssign([url |-> a.input.request.url], a.input.request)
        ELSE [url |-> a.input.value]
      fromInit ==
        IF "init" \in DOMAIN a
        THEN ObjectAssign(
               ObjectAssign(fromInput, a.init),
               [headers |-> IF "headers" \in DOMAIN a.init
                            THEN Headers(a.init.headers) ELSE NoHeaders])
        ELSE IF ~a.input.string /\ "headers" \in DOMAIN a.input.request
             THEN ObjectAssign(fromInput,
                               [headers |-> a.input.request.headers])
             ELSE [k \in DOMAIN fromInput \ {"headers"} |-> fromInput[k]]
      withHeaders ==
        IF "headers" \notin DOMAIN fromInit
        THEN ObjectAssign(fromInit, [headers |-> NoHeaders])
        ELSE fromInit
      withUserAgent ==
        IF ~has(withHeaders.headers, "user-agent")
        THEN ObjectAssign(withHeaders,
               [headers |-> append(withHeaders.headers, "user-agent",
                                   userAgent)])
        ELSE withHeaders
      withMethod ==
        IF "method" \in DOMAIN withUserAgent THEN withUserAgent
        ELSE ObjectAssign(withUserAgent, [method |-> "GET"])
      withCredentials ==
        IF /\ "context" \in DOMAIN a
           /\ KEY_CONTEXT_INCLUDE_CREDENTIALS \in DOMAIN a.context
           /\ a.context[KEY_CONTEXT_INCLUDE_CREDENTIALS]
        THEN ObjectAssign(withMethod, [withCredentials |-> TRUE])
        ELSE withMethod
  IN IF "context" \in DOMAIN a /\ KEY_CONTEXT_AUTH \in DOMAIN a.context
     THEN ObjectAssign(withCredentials,
                       [auth |-> a.context[KEY_CONTEXT_AUTH]])
     ELSE withCredentials

\* The responses a request may get. No informational status is among them:
\* the client does not hand those over as a response.
HttpResponses ==
  {[statusCode |-> status, responseUrl |-> url, headers |-> Headers(h)] :
     status \in {200, 299, 300, 404},
     url \in {RequestedUrl, "http://example.org/moved"},
     h \in {NoHeaders, "Content-Location" :> "http://example.org/index.ttl"}}

okUpTo300(statusCode) == statusCode <= 300

\* ok of the output
ok(statusCode) == statusCode < 300

\* The output the deferred callback resolves with; cancel is set on the
\* response, which is its body.
httpOutput(options, httpResponse) ==
  [body |-> [stream |-> "httpResponse", cancel |-> TRUE],
   headers |-> httpResponse.headers,
   ok |-> ok(httpResponse.statusCode),
   redirected |-> options.url # httpResponse.responseUrl,
   status |-> httpResponse.statusCode,
   url |-> IF has(httpResponse.headers, "content-location")
           THEN httpResponse.headers["content-location"]
           ELSE httpResponse.responseUrl]

RejectedWith(error) == [settled |-> "rejected", error |-> error]

settleAgain(promise, settlement) == settlement

\* resolve or reject of a promise: the first settles it, the later do nothing.
settle(promise, settlement) ==
  IF promise = Pending THEN settlement ELSE promise

\* run is called: the options are made and the request is created.
httpRun ==
  /\ ~http.called
  /\ \E a \in HttpActions :
       http' = [called |-> TRUE,
                action |-> a,
                options |-> requestOptions(a),
                promise |-> Pending,
                requestErrored |-> FALSE,
                responded |-> FALSE,
                responseErrored |-> FALSE,
                httpResponse |-> "none",
                immediate |-> "none",
                destroyed |-> FALSE,
                cancelled |-> "no"]
  /\ UNCHANGED <<sliceVars, joinVars, joinCall, pathSeq,
               runner, serializer, dataSource>>

\* The request emits 'error': reject.
requestError ==
  /\ http.called
  /\ ~http.requestErrored
  /\ http' = [http EXCEPT
                !.requestErrored = TRUE,
                !.promise = settle(@, RejectedWith("request error"))]
  /\ UNCHANGED <<sliceVars, joinVars, joinCall, pathSeq,
               runner, serializer, dataSource>>

\* The request emits 'response': the response of a HEAD request is
\* destroyed, and the callback that builds the output is deferred.
response ==
  /\ http.called
  /\ ~http.responded
  /\ \E httpResponse \in HttpResponses :
       http' = [called |-> TRUE,
                action |-> http.action,
                options |-> http.options,
                promise |-> http.promise,
                requestErrored |-> http.requestErrored,
                responded |-> TRUE,
                responseErrored |-> FALSE,
                httpResponse |-> "set",
                response |-> httpResponse,
                immediate |-> "scheduled",
                destroyed |-> (http.options.method = "HEAD"),
                cancelled |-> "no"]
  /\ UNCHANGED <<sliceVars, joinVars, joinCall, pathSeq,
               runner, serializer, dataSource>>

\* The response emits 'error': httpResponse is set to null, and reject.
responseError ==
  /\ http.called
  /\ http.responded
  /\ ~http.responseErrored
  /\ http' = [http EXCEPT
                !.responseErrored = TRUE,
                !.httpResponse = "null",
                !.promise = settle(@, RejectedWith("response error"))]
  /\ UNCHANGED <<sliceVars, joinVars, joinCall, pathSeq,
               runner, serializer, dataSource>>

\* The deferred callback runs: when httpResponse is not null, cancel is set
\* on it and the promise is resolved with the output.
immediate ==
  /\ http.called
  /\ http.immediate = "scheduled"
  /\ http' = [http EXCEPT
                !.immediate = "ran",
                !.promise =
                   IF http.httpResponse = "set"
                   THEN settle(@, Resolved(httpOutput(http.options,
                                                      http.response)))
                   ELSE @]
  /\ UNCHANGED <<sliceVars, joinVars, joinCall, pathSeq,
               runner, serializer, dataSource>>

\* cancel of the output's body is invoked: the response is destroyed and a
\* resolved promise returned.
cancel ==
  /\ http.called
  /\ http.promise.settled = "resolved"
  /\ http.cancelled = "no"
  /\ http' = [http EXCEPT !.destroyed = TRUE, !.cancelled = "resolved"]
  /\ UNCHANGED <<sliceVars, joinVars, joinCall, pathSeq,
               runner, serializer, dataSource>>

HttpNext ==
  \/ httpRun
  \/ requestError
  \/ response
  \/ responseError
  \/ immediate
  \/ cancel

(***************************************************************************)
(* ActorSparqlSerializeTree                                                *)
(***************************************************************************)
\* key.slice(1): the key without its '?' prefix.
slice1(key) == CHOOSE name \in {"x", "y"} : "?" \o name = key

\* The bindings of a 'data' event under their re-keyed variables.
reKeyedBindings(bindings) ==
  [name \in {slice1(key) : key \in DOMAIN bindings} |->
     bindings[CHOOSE key \in DOMAIN bindings : slice1(key) = name]]

\* converter.bindingsToTree and JSON.stringify of its result.
bindingsToTree(bindingsArray) == [tree |-> bindingsArray]

stringify(result) == [json |-> result]

\* runHandle: the data stream is made, the listeners are put on the
\* bindings stream, in order the one of runHandle and those of
\* bindingsStreamToGraphQl, and the reactions on the promise.
runHandle ==
  /\ ~serializer.called
  /\ \E bindings \in SeqsUpTo(AllBindingsMaps, MaxRows) :
       serializer' = [called |-> TRUE,
                      toEmit |-> bindings,
                      sourceErrors |-> 0,
                      sourceEnded |-> FALSE,
                      bindingsArray |-> <<>>,
                      promise |-> Pending,
                      reacted |-> FALSE,
                      data |-> <<>>]
  /\ UNCHANGED <<sliceVars, joinVars, joinCall, pathSeq,
               runner, http, dataSource>>

\* The bindings stream emits 'data'.
bindingsData ==
  /\ serializer.called
  /\ ~serializer.sourceEnded
  /\ serializer.toEmit # <<>>
  /\ serializer' = [serializer EXCEPT
                      !.toEmit = Tail(@),
                      !.bindingsArray =
                         Append(@, reKeyedBindings(Head(serializer.toEmit)))]
  /\ UNCHANGED <<sliceVars, joinVars, joinCall, pathSeq,
               runner, http, dataSource>>

\* The bindings stream emits its one 'error': the listener of runHandle
\* emits it on data, then the listener of bindingsStreamToGraphQl rejects.
bindingsError ==
  /\ serializer.called
  /\ ~serializer.sourceEnded
  /\ serializer.sourceErrors = 0
  /\ serializer' = [serializer EXCEPT
                      !.sourceErrors = 1,
                      !.data = Append(@, "error"),
                      !.promise = settle(@, RejectedWith("stream error"))]
  /\ UNCHANGED <<sliceVars, joinVars, joinCall, pathSeq,
               runner, http, dataSource>>

\* The bindings stream emits 'end': resolve with the tree.
bindingsEnd ==
  /\ serializer.called
  /\ ~serializer.sourceEnded
  /\ serializer.toEmit = <<>>
  /\ serializer' = [serializer EXCEPT
                      !.sourceEnded = TRUE,
                      !.promise =
                         settle(@, Resolved(bindingsToTree(
                                              serializer.bindingsArray)))]
  /\ UNCHANGED <<sliceVars, joinVars, joinCall, pathSeq,
               runner, http, dataSource>>

\* The promise has settled and its reaction runs: then pushes the result
\* and the end of data, catch emits the error on data.
promiseReacts ==
  /\ serializer.called
  /\ serializer.promise # Pending
  /\ ~serializer.reacted
  /\ serializer' = [serializer EXCEPT
                      !.reacted = TRUE,
                      !.data =
                         IF serializer.promise.settled = "resolved"
                         THEN @ \o <<stringify(serializer.promise.output), "end">>
                         ELSE Append(@, "error")]
  /\ UNCHANGED <<sliceVars, joinVars, joinCall, pathSeq,
               runner, http, dataSource>>

SerializerNext ==
  \/ runHandle
  \/ bindingsData
  \/ bindingsError
  \/ bindingsEnd
  \/ promiseReacts

(***************************************************************************)
(* Data source descriptors                                                 *)
(***************************************************************************)
JsUndefined == [defined |-> FALSE]
JsValue(v) == [defined |-> TRUE, value |-> v]

\* Contexts: immutable maps from keys to values.
ContextsOf(entry) ==
  UNION {[keys -> {entry}] : keys \in SUBSET {"source", "lenient"}}

\* The data sources: a string, or an object that may hold match, type, value
\* and context.
DataSources ==
  {[string |-> TRUE, value |-> iri] :
     iri \in {"http://example.org/", "http://example.org/sparql"}}
    \cup {[string |-> FALSE, object |-> match @@ type @@ value @@ context] :
            match \in {<<>>, [match |-> "function"]},
            type \in {<<>>, [type |-> "sparql"], [type |-> "file"]},
            value \in {[value |-> "http://example.org/"]},
            context \in {<<>>} \cup {[context |-> c] :
                                       c \in ContextsOf("of the source")}}

\* 'match' in dataSource
hasMatch(ds) == "match" \in DOMAIN ds.object

isDataSourceRawType(ds) == ds.string \/ hasMatch(ds)

getDataSourceType(ds) ==
  IF ds.string THEN JsValue("")
  ELSE IF hasMatch(ds) THEN JsValue("rdfjsSource")
  ELSE IF "type" \in DOMAIN ds.object THEN JsValue(ds.object.type)
  ELSE JsUndefined

getDataSourceValue(ds) ==
  IF isDataSourceRawType(ds) THEN ds ELSE ds.object.value

mergeLeftBiased(context, other) ==
  [k \in DOMAIN context \cup DOMAIN other |->
     IF k \in DOMAIN context THEN context[k] ELSE other[k]]

\* context.merge(other): the entries of both, those of other on shared keys.
merge(context, other) ==
  [k \in DOMAIN context \cup DOMAIN other |->
     IF k \in DOMAIN other THEN other[k] ELSE context[k]]

getDataSourceContext(ds, context) ==
  IF ds.string \/ hasMatch(ds) \/ "context" \notin DOMAIN ds.object
  THEN context
  ELSE merge(context, ds.object.context)

\* The three are applied to a data source and a context.
resolveDataSource ==
  /\ ~dataSource.called
  /\ \E ds \in DataSources, context \in ContextsOf("of the query") :
       dataSource' = [called |-> TRUE,
                      dataSource |-> ds,
                      context |-> context,
                      type |-> getDataSourceType(ds),
                      value |-> getDataSourceValue(ds),
                      resolved |-> getDataSourceContext(ds, context)]
  /\ UNCHANGED <<sliceVars, joinVars, joinCall, pathSeq,
               runner, http, serializer>>

DataSourceNext == resolveDataSource

(***************************************************************************)
(* Specifications                                                          *)
(***************************************************************************)
\* The Slice actor alone: the join actor stays as constructed by default.
InitSlice ==
  /\ slicePhase = "idle"
  /\ input = <<>>
  /\ src = <<>>
  /\ chain = <<>>
  /\ output = NoOutput
  /\ child = NoOutput
  /\ started = FALSE
  /\ actor = [limitEntries |-> Infinity, limitEntriesMin |-> FALSE]
  /\ joinPhase = "idle"
  /\ action = NoAction
  /\ testReply = Pending
  /\ runReply = Pending
  /\ getIterationsCalls = 0
  /\ getOutputCalls = 0
  /\ getOutputResult = NotCalled
  /\ joinedVariables = NotCalled
  /\ joinCall = NotCalled
  /\ pathSeq = NotCalled
  /\ runner = RunnerConstructed
  /\ http = NotCalled
  /\ serializer = NotCalled
  /\ dataSource = NotCalled

SpecSlice == InitSlice /\ [][SliceNext]_vars

\* The join actor alone, as constructed with any of the arguments.
InitJoin ==
  /\ slicePhase = "idle"
  /\ input = <<>>
  /\ src = <<>>
  /\ chain = <<>>
  /\ output = NoOutput
  /\ child = NoOutput
  /\ started = FALSE
  /\ actor \in {constructor(args) : args \in ConstructorArgs}
  /\ joinPhase = "idle"
  /\ action = NoAction
  /\ testReply = Pending
  /\ runReply = Pending
  /\ getIterationsCalls = 0
  /\ getOutputCalls = 0
  /\ getOutputResult = NotCalled
  /\ joinedVariables = NotCalled
  /\ joinCall = NotCalled
  /\ pathSeq = NotCalled
  /\ runner = RunnerConstructed
  /\ http = NotCalled
  /\ serializer = NotCalled
  /\ dataSource = NotCalled

SpecJoin == InitJoin /\ [][JoinNext]_vars

\* The static join of bindings alone.
InitBindings ==
  /\ slicePhase = "idle"
  /\ input = <<>>
  /\ src = <<>>
  /\ chain = <<>>
  /\ output = NoOutput
  /\ child = NoOutput
  /\ started = FALSE
  /\ actor = [limitEntries |-> Infinity, limitEntriesMin |-> FALSE]
  /\ joinPhase = "idle"
  /\ action = NoAction
  /\ testReply = Pending
  /\ runReply = Pending
  /\ getIterationsCalls = 0
  /\ getOutputCalls = 0
  /\ getOutputResult = NotCalled
  /\ joinedVariables = NotCalled
  /\ joinCall = NotCalled
  /\ pathSeq = NotCalled
  /\ runner = RunnerConstructed
  /\ http = NotCalled
  /\ serializer = NotCalled
  /\ dataSource = NotCalled

SpecBindings == InitBindings /\ [][BindingsNext]_vars

\* The Seq path actor alone, with its two mediators.
InitPathSeq ==
  /\ slicePhase = "idle"
  /\ input = <<>>
  /\ src = <<>>
  /\ chain = <<>>
  /\ output = NoOutput
  /\ child = NoOutput
  /\ started = FALSE
  /\ actor = [limitEntries |-> Infinity, limitEntriesMin |-> FALSE]
  /\ joinPhase = "idle"
  /\ action = NoAction
  /\ testReply = Pending
  /\ runReply = Pending
  /\ getIterationsCalls = 0
  /\ getOutputCalls = 0
  /\ getOutputResult = NotCalled
  /\ joinedVariables = NotCalled
  /\ joinCall = NotCalled
  /\ pathSeq = NotCalled
  /\ runner = RunnerConstructed
  /\ http = NotCalled
  /\ serializer = NotCalled
  /\ dataSource = NotCalled

SpecPathSeq == InitPathSeq /\ [][PathSeqNext]_vars

\* The Runner alone, with its actors.
InitRunner ==
  /\ slicePhase = "idle"
  /\ input = <<>>
  /\ src = <<>>
  /\ chain = <<>>
  /\ output = NoOutput
  /\ child = NoOutput
  /\ started = FALSE
  /\ actor = [limitEntries |-> Infinity, limitEntriesMin |-> FALSE]
  /\ joinPhase = "idle"
  /\ action = NoAction
  /\ testReply = Pending
  /\ runReply = Pending
  /\ getIterationsCalls = 0
  /\ getOutputCalls = 0
  /\ getOutputResult = NotCalled
  /\ joinedVariables = NotCalled
  /\ joinCall = NotCalled
  /\ pathSeq = NotCalled
  /\ runner = RunnerConstructed
  /\ http = NotCalled
  /\ serializer = NotCalled
  /\ dataSource = NotCalled

SpecRunner == InitRunner /\ [][RunnerNext]_vars

\* The native http actor alone, with its request.
InitHttp ==
  /\ slicePhase = "idle"
  /\ input = <<>>
  /\ src = <<>>
  /\ chain = <<>>
  /\ output = NoOutput
  /\ child = NoOutput
  /\ started = FALSE
  /\ actor = [limitEntries |-> Infinity, limitEntriesMin |-> FALSE]
  /\ joinPhase = "idle"
  /\ action = NoAction
  /\ testReply = Pending
  /\ runReply = Pending
  /\ getIterationsCalls = 0
  /\ getOutputCalls = 0
  /\ getOutputResult = NotCalled
  /\ joinedVariables = NotCalled
  /\ joinCall = NotCalled
  /\ pathSeq = NotCalled
  /\ runner = RunnerConstructed
  /\ http = NotCalled
  /\ serializer = NotCalled
  /\ dataSource = NotCalled

SpecHttp == InitHttp /\ [][HttpNext]_vars

\* The tree serializer alone, with the bindings stream it is given.
InitSerializer ==
  /\ slicePhase = "idle"
  /\ input = <<>>
  /\ src = <<>>
  /\ chain = <<>>
  /\ output = NoOutput
  /\ child = NoOutput
  /\ started = FALSE
  /\ actor = [limitEntries |-> Infinity, limitEntriesMin |-> FALSE]
  /\ joinPhase = "idle"
  /\ action = NoAction
  /\ testReply = Pending
  /\ runReply = Pending
  /\ getIterationsCalls = 0
  /\ getOutputCalls = 0
  /\ getOutputResult = NotCalled
  /\ joinedVariables = NotCalled
  /\ joinCall = NotCalled
  /\ pathSeq = NotCalled
  /\ runner = RunnerConstructed
  /\ http = NotCalled
  /\ serializer = NotCalled
  /\ dataSource = NotCalled

SpecSerializer == InitSerializer /\ [][SerializerNext]_vars

\* The data source descriptors alone.
InitDataSource ==
  /\ slicePhase = "idle"
  /\ input = <<>>
  /\ src = <<>>
  /\ chain = <<>>
  /\ output = NoOutput
  /\ child = NoOutput
  /\ started = FALSE
  /\ actor = [limitEntries |-> Infinity, limitEntriesMin |-> FALSE]
  /\ joinPhase = "idle"
  /\ action = NoAction
  /\ testReply = Pending
  /\ runReply = Pending
  /\ getIterationsCalls = 0
  /\ getOutputCalls = 0
  /\ getOutputResult = NotCalled
  /\ joinedVariables = NotCalled
  /\ joinCall = NotCalled
  /\ pathSeq = NotCalled
  /\ runner = RunnerConstructed
  /\ http = NotCalled
  /\ serializer = NotCalled
  /\ dataSource = NotCalled

SpecDataSource == InitDataSource /\ [][DataSourceNext]_vars

(***************************************************************************)
(* Properties of the Slice actor, checked under SpecSlice                  *)
(***************************************************************************)
Min(a, b) == IF a <= b THEN a ELSE b

IsPrefix(p, q) == Len(p) <= Len(q) /\ \A i \in 1..Len(p) : p[i] = q[i]

\* The items of X at positions s .. s+l-1 (counted from 0), or from position
\* s on when l is absent, in X's order.
ItemsAt(X, p) ==
  LET last == IF "length" \in DOMAIN p
              THEN Min(p.start + p.length, Len(X)) ELSE Len(X)
  IN [i \in 1..(last - p.start) |-> X[p.start + i]]

OneSlice == slicePhase = "resolved" /\ Len(chain) = 1

\* C1: the stream of a Slice over X with start s and optional length l
\* delivers only items of X at positions s .. s+l-1, in order and once each,
\* and has delivered exactly those when it ends.
C1_SliceEmitsRange ==
  OneSlice =>
    /\ IsPrefix(Delivered, ItemsAt(input, chain[1].pattern))
    /\ Ended => Delivered = ItemsAt(input, chain[1].pattern)

\* Start 1, length 2 over 4 items: the 2nd and the 3rd were delivered.
C1_Witness ==
  /\ OneSlice
  /\ Ended
  /\ Len(input) = 4
  /\ chain[1].pattern = [start |-> 1, length |-> 2]
  /\ Delivered = <<2, 3>>

\* The child's totalItems, when its metadata resolves and holds one.
ChildHasTotal ==
  /\ "metadata" \in DOMAIN child
  /\ child.metadata.kind = "resolves"
  /\ "totalItems" \in DOMAIN child.metadata.value

ChildTotal == child.metadata.value.totalItems

\* max(0, min(length, total - start)) over the non-negative integers and
\* +infinity, the min omitted when the length is absent.
ClaimedTotal(total, p) ==
  LET rest == IF total = Infinity THEN Infinity
              ELSE IF total - p.start < 0 THEN 0 ELSE total - p.start
  IN IF "length" \in DOMAIN p THEN Min(p.length, rest) ELSE rest

\* C2 as stated: for every child totalItems (a non-negative integer or
\* +infinity), start and length, the Slice metadata reports
\* totalItems = max(0, min(length, child-total - start)).
C2_TotalItemsAsClaimed ==
  (OneSlice /\ ChildHasTotal) =>
    /\ output.metadata.kind = "resolves"
    /\ output.metadata.value.totalItems = ClaimedTotal(ChildTotal, chain[1].pattern)

\* C2 as amended: for every finite child totalItems the Slice metadata
\* reports max(0, min(length, child-total - start)), the min omitted when
\* the length is absent; for a child totalItems of +infinity it reports
\* +infinity, with or without a length.
C2_TotalItemsFinite ==
  (OneSlice /\ ChildHasTotal) =>
    /\ output.metadata.kind = "resolves"
    /\ output.metadata.value.totalItems =
         IF ChildTotal = Infinity THEN Infinity
         ELSE ClaimedTotal(ChildTotal, chain[1].pattern)

\* Child total 4, start 1, length 2: the Slice reports 2.
C2_Witness ==
  /\ OneSlice
  /\ ChildHasTotal
  /\ ChildTotal = 4
  /\ chain[1].pattern = [start |-> 1, length |-> 2]
  /\ output.metadata.value.totalItems = 2

TwoSlices ==
  /\ slicePhase = "resolved"
  /\ Len(chain) = 2
  /\ "length" \in DOMAIN chain[1].pattern
  /\ "length" \in DOMAIN chain[2].pattern

\* C3: Slice(start c, length d) over Slice(start a, length b) over X delivers
\* what a single Slice(start a+c, length min(b-c, d)) over X delivers,
\* whenever b-c >= 0.
C3_SliceComposition ==
  (TwoSlices /\ Ended) =>
    LET a == chain[1].pattern.start
        b == chain[1].pattern.length
        c == chain[2].pattern.start
        d == chain[2].pattern.length
    IN b - c >= 0 =>
         Delivered = sliceStream(input, [start |-> a + c, length |-> Min(b - c, d)])

\* Two Slices, the outer with a start the inner's length covers, ended
\* after delivering an item.
C3_Witness ==
  /\ TwoSlices
  /\ Ended
  /\ chain[2].pattern.start > 0
  /\ chain[1].pattern.length - chain[2].pattern.start >= 0
  /\ chain[1].pattern.start > 0
  /\ Delivered # <<>>

\* The innermost child's totalItems is exact: the number of items its
\* stream delivers.
ChildTotalExact == ChildHasTotal /\ ChildTotal = Len(input)

\* C4: when the child's totalItems is exact, the sliced stream never has
\* delivered more items than the totalItems the Slice metadata reports.
C4_DeliveredWithinTotal ==
  (slicePhase = "resolved" /\ chain # <<>> /\ ChildTotalExact) =>
    /\ output.metadata.kind = "resolves"
    /\ Len(Delivered) <= output.metadata.value.totalItems

\* An exact child, a Slice with a length, ended having delivered as many
\* items as it reports.
C4_Witness ==
  /\ OneSlice
  /\ ChildTotalExact
  /\ Ended
  /\ "length" \in DOMAIN chain[1].pattern
  /\ Len(Delivered) = 2
  /\ output.metadata.value.totalItems = 2

\* C22: a child totalItems of +infinity is reported unchanged, with or
\* without a length; every metadata key but totalItems, and the variables
\* list, are those of the child; a child without metadata thunk gives a Slice
\* output without one.
C22_MetadataFrame ==
  (slicePhase = "resolved" /\ chain # <<>>) =>
    /\ (ChildHasTotal /\ ChildTotal = Infinity) =>
         /\ output.metadata.kind = "resolves"
         /\ output.metadata.value.totalItems = Infinity
    /\ child.metadata.kind = "resolves" =>
         /\ output.metadata.kind = "resolves"
         /\ DOMAIN output.metadata.value \ {"totalItems"} =
              DOMAIN child.metadata.value \ {"totalItems"}
         /\ \A k \in DOMAIN child.metadata.value \ {"totalItems"} :
              output.metadata.value[k] = child.metadata.value[k]
    /\ child.metadata.kind = "none" => output.metadata.kind = "none"
    /\ "variables" \in DOMAIN child =>
         /\ "variables" \in DOMAIN output
         /\ output.variables = child.variables

\* A child of +infinity items with a page size and two variables, under a
\* Slice with a length: +infinity, the page size and the variables are kept.
C22_Witness ==
  /\ OneSlice
  /\ output.type = "bindings"
  /\ ChildHasTotal
  /\ ChildTotal = Infinity
  /\ chain[1].pattern = [start |-> 1, length |-> 2]
  /\ output.metadata.value = [totalItems |-> Infinity, pageSize |-> 10]
  /\ output.variables = <<"?s", "?o">>

(***************************************************************************)
(* Properties of the join actor, checked under SpecJoin                    *)
(***************************************************************************)
NumEntries == Len(action.entries)

AllBindings == \A i \in 1..NumEntries : action.entries[i].type = "bindings"

\* C5: run handles 0 and 1 entries without calling getOutput: 0 entries give
\* the empty bindings stream with variables [] and totalItems 0, 1 entry
\* gives that entry itself.
C5_TrivialJoins ==
  (joinPhase = "ran" /\ NumEntries <= 1) =>
    /\ getOutputCalls = 0
    /\ runReply.settled = "resolved"
    /\ NumEntries = 0 =>
         /\ runReply.output.type = "bindings"
         /\ runReply.output.bindingsStream = "empty"
         /\ runReply.output.variables = <<>>
         /\ runReply.output.metadata = Resolves([totalItems |-> 0])
    /\ NumEntries = 1 => runReply.output = action.entries[1]

\* run has returned the single entry of an action, an entry with metadata.
C5_Witness ==
  /\ joinPhase = "ran"
  /\ NumEntries = 1
  /\ action.entries[1].metadata = Resolves([totalItems |-> 3])
  /\ runReply = Resolved(action.entries[1])
  /\ getOutputCalls = 0

\* The number of entries is within the limit the actor declared.
SatisfiesLimit ==
  IF actor.limitEntriesMin
  THEN NumEntries >= actor.limitEntries
  ELSE NumEntries <= actor.limitEntries

\* Some entry has no metadata thunk, or one that rejects, or metadata
\* without totalItems.
SomeMetadataMissing ==
  \E i \in 1..NumEntries :
    \/ action.entries[i].metadata.kind \in {"none", "rejects"}
    \/ "totalItems" \notin DOMAIN action.entries[i].metadata.value

\* C6: for 2 or more bindings entries within the actor's limit, test passes
\* with iterations = +infinity, without calling getIterations, when some
\* entry's metadata is missing, and settles with what getIterations
\* settles with only when every entry's metadata has totalItems.
C6_MissingMetadataIsInfinity ==
  (joinPhase # "idle" /\ NumEntries >= 2 /\ AllBindings /\ SatisfiesLimit) =>
    IF SomeMetadataMissing
    THEN testReply = Passed(Infinity) /\ getIterationsCalls = 0
    ELSE /\ getIterationsCalls = 1
         /\ testReply \in {Passed(7), Failed("getIterations")}

\* test has passed with +infinity for entries of which one has metadata
\* with totalItems and another has a metadata thunk that rejects.
C6_Witness ==
  /\ joinPhase = "tested"
  /\ NumEntries = 2
  /\ action.entries[1].metadata = Resolves([totalItems |-> 3])
  /\ action.entries[2].metadata = Rejects
  /\ testReply = Passed(Infinity)

\* The number of entries violates the limit the actor declared.
ViolatesLimit ==
  IF actor.limitEntriesMin
  THEN NumEntries < actor.limitEntries
  ELSE NumEntries > actor.limitEntries

\* C7 as stated: whenever the number of entries violates the limit the
\* actor declared, test fails and the action does not reach the actor's run.
\* It is stated here for the actors whose limitEntries is not 0 only, 0
\* being documented as no limit: the statement for all actors implies it.
C7_ViolationFailsTest ==
  (joinPhase # "idle" /\ actor.limitEntries # 0 /\ ViolatesLimit) =>
    ~testReply.passed /\ joinPhase # "ran"

\* C7 as amended: whenever an action of 2 or more entries violates the
\* actor's limit, test fails and the action does not reach the actor's run.
C7_ViolationFailsTestFromTwo ==
  (joinPhase # "idle" /\ NumEntries >= 2 /\ ViolatesLimit) =>
    testReply = Failed("limit") /\ joinPhase # "ran"

\* test has failed for 2 entries given to an actor that requires 3 at least.
C7_Witness ==
  /\ joinPhase = "tested"
  /\ actor = [limitEntries |-> 3, limitEntriesMin |-> TRUE]
  /\ NumEntries = 2
  /\ AllBindings
  /\ testReply = Failed("limit")

\* C8: the test of an actor constructed with limitEntries = 0 never fails
\* because of the number of entries.
C8_ZeroIsNoLimit ==
  (joinPhase # "idle" /\ actor.limitEntries = 0) => testReply # Failed("limit")

\* The product of the entries' totalItems.
RECURSIVE ProductOfTotals(_)
ProductOfTotals(n) ==
  IF n = 0 THEN 1
  ELSE JsMul(action.entries[n].metadata.value.totalItems, ProductOfTotals(n - 1))

\* C9: for 2 or more entries whose metadata all carry totalItems, the
\* metadata of run's output, when it resolves, reports what getOutput's own
\* metadata reported as totalItems if it reported one, and the product of
\* the entries' totalItems otherwise, also when getOutput gave no metadata.
C9_TotalItemsIsProduct ==
  (/\ joinPhase = "ran"
   /\ NumEntries >= 2
   /\ ~SomeMetadataMissing
   /\ runReply.settled = "resolved"
   /\ getOutputResult.result.value.metadata.kind # "rejects") =>
    LET own == getOutputResult.result.value.metadata
        reported == runReply.output.metadata
    IN /\ reported.kind = "resolves"
       /\ "totalItems" \in DOMAIN reported.value
       /\ reported.value.totalItems =
            IF own.kind = "resolves" /\ "totalItems" \in DOMAIN own.value
            THEN own.value.totalItems
            ELSE ProductOfTotals(NumEntries)

\* run has returned 9 as totalItems for two entries of 3 items each joined
\* by a getOutput that gave no metadata.
C9_Witness ==
  /\ joinPhase = "ran"
  /\ NumEntries = 2
  /\ ~SomeMetadataMissing
  /\ action.entries[1].metadata.value.totalItems = 3
  /\ action.entries[2].metadata.value.totalItems = 3
  /\ getOutputResult.result.ok
  /\ getOutputResult.result.value.metadata = NoMetadata
  /\ runReply.settled = "resolved"
  /\ runReply.output.metadata = Resolves([totalItems |-> 9])

\* The places (entry, index) at which a variable occurs in the entries.
Places(v) ==
  {<<i, j>> \in (1..NumEntries) \X (1..2) :
     j <= Len(action.entries[i].variables) /\ action.entries[i].variables[j] = v}

Before(p, q) == p[1] < q[1] \/ (p[1] = q[1] /\ p[2] < q[2])

FirstPlace(v) ==
  CHOOSE p \in Places(v) : \A q \in Places(v) : p = q \/ Before(p, q)

\* C10: joinVariables returns every variable of every entry and nothing
\* else, each once, in the order of their first occurrence in the entries.
C10_JoinVariablesIsUnion ==
  (joinedVariables.called /\ AllBindings) =>
    /\ ~joinedVariables.result.threw
    /\ LET r == joinedVariables.result.value
       IN /\ \A i \in 1..NumEntries :
               \A j \in 1..Len(action.entries[i].variables) :
                 \E k \in 1..Len(r) : r[k] = action.entries[i].variables[j]
          /\ \A k \in 1..Len(r) : Places(r[k]) # {}
          /\ \A k, l \in 1..Len(r) : k # l => r[k] # r[l]
          /\ \A k, l \in 1..Len(r) :
               k < l => Before(FirstPlace(r[k]), FirstPlace(r[l]))

\* joinVariables has returned ?b, ?a, ?c for entries with the variables
\* ?b ?a and ?a ?c.
C10_Witness ==
  /\ joinedVariables.called
  /\ NumEntries = 2
  /\ AllBindings
  /\ action.entries[1].variables = <<"?b", "?a">>
  /\ action.entries[2].variables = <<"?a", "?c">>
  /\ joinedVariables.result = Returned(<<"?b", "?a", "?c">>)

(***************************************************************************)
(* Properties of the join of bindings, checked under SpecBindings          *)
(***************************************************************************)
\* Two bindings are compatible: every variable bound in both is bound to
\* the same term.
Compatible(a, b) == \A k \in DOMAIN a \cap DOMAIN b : a[k] = b[k]

PairwiseCompatible(bs) ==
  \A i, j \in 1..Len(bs) : Compatible(bs[i], bs[j])

\* The union of pairwise compatible bindings.
UnionOf(bs) ==
  [k \in UNION {DOMAIN bs[i] : i \in 1..Len(bs)} |->
     bs[CHOOSE i \in 1..Len(bs) : k \in DOMAIN bs[i]][k]]

\* C11: join of bindings b1..bn (n >= 1) returns their union when they are
\* pairwise compatible and null when two of them bind a shared variable to
\* different terms; a mapping it returns agrees with every input, and the
\* inputs are left as they were.
C11_JoinIsUnionOrNull ==
  (joinCall.called /\ Len(joinCall.args) >= 1) =>
    /\ IF PairwiseCompatible(joinCall.args)
       THEN joinCall.result = Joined(UnionOf(joinCall.args))
       ELSE joinCall.result = JoinNull
    /\ ~joinCall.result.null =>
         \A i \in 1..Len(joinCall.args) :
           \A k \in DOMAIN joinCall.args[i] :
             /\ k \in DOMAIN joinCall.result.bindings
             /\ joinCall.result.bindings[k] = joinCall.args[i][k]
    /\ joinCall.after = joinCall.args

\* Three bindings that share ?x with equal terms were joined into a mapping
\* of ?x and ?y.
C11_Witness ==
  /\ joinCall.called
  /\ Len(joinCall.args) = 3
  /\ \A i \in 1..3 : "?x" \in DOMAIN joinCall.args[i]
  /\ "?y" \notin DOMAIN joinCall.args[1]
  /\ "?y" \in DOMAIN joinCall.args[3]
  /\ ~joinCall.result.null
  /\ DOMAIN joinCall.result.bindings = {"?x", "?y"}

\* C12: join(a, b) and join(b, a) are both null or the same mapping.
C12_JoinCommutes ==
  (joinCall.called /\ Len(joinCall.args) = 2) =>
    joinCall.result = join(<<joinCall.args[2], joinCall.args[1]>>)

\* Two different bindings that share a variable were joined.
C12_Witness ==
  /\ joinCall.called
  /\ Len(joinCall.args) = 2
  /\ DOMAIN joinCall.args[1] = {"?x"}
  /\ DOMAIN joinCall.args[2] = {"?x", "?y"}
  /\ ~joinCall.result.null

(***************************************************************************)
(* Properties of the Seq path actor, checked under SpecPathSeq             *)
(***************************************************************************)
EventsOf(kind) ==
  {i \in 1..Len(pathSeq.events) : pathSeq.events[i].event = kind}

\* C13: the variable generated for the intermediate node is absent from the
\* variables the operator returns and unbound in every solution it emits,
\* whatever the path operations and the join resolved with.
C13_GeneratedVariableHidden ==
  (pathSeq.called /\ pathSeq.pc = "done") =>
    /\ pathSeq.varName \notin Range(pathSeq.output.variables)
    /\ \A i \in 1..Len(pathSeq.output.bindingsStream) :
         pathSeq.varName \notin DOMAIN pathSeq.output.bindingsStream[i]

\* The join held the generated variable, in its variables and in a solution,
\* and the operator returned a solution.
C13_Witness ==
  /\ pathSeq.called
  /\ pathSeq.pc = "done"
  /\ pathSeq.varName \in Range(pathSeq.join.variables)
  /\ Len(pathSeq.join.bindingsStream) >= 1
  /\ pathSeq.varName \in DOMAIN pathSeq.join.bindingsStream[1]
  /\ Len(pathSeq.output.bindingsStream) >= 1
  /\ Len(pathSeq.output.variables) >= 1

\* C14: the operator for (s, Seq(l, r), o, g) mediates exactly the two path
\* operations (s, l, ?v, g) and (?v, r, o, g), with the one generated ?v,
\* both before it awaits either; it mediates at most one join, of the two
\* outputs in that order and not before both path operations resolved, and
\* exactly one when it goes on to return; if a path operation fails the
\* operator has failed and no join was issued.
C14_TwoPathsThenOneJoin ==
  pathSeq.called =>
    LET path == pathSeq.path
        events == pathSeq.events
        subOperations == pathSeq.subOperations
    IN /\ EventsOf("mediate") = {1, 2}
       /\ events[1].operation =
            [type |-> "path", subject |-> path.subject,
             predicate |-> path.predicate.left, object |-> pathSeq.variable,
             graph |-> path.graph]
       /\ events[2].operation =
            [type |-> "path", subject |-> pathSeq.variable,
             predicate |-> path.predicate.right, object |-> path.object,
             graph |-> path.graph]
       /\ EventsOf("await") = {3}
       /\ Cardinality(EventsOf("join")) <= 1
       /\ \A i \in EventsOf("join") :
            /\ \A j \in 1..2 : subOperations[j].settled = "resolved"
            /\ events[i].entries = <<subOperations[1].output,
                                     subOperations[2].output>>
       /\ pathSeq.pc \in {"joining", "done"} =>
            Cardinality(EventsOf("join")) = 1
       /\ (\E j \in 1..2 : subOperations[j].settled = "rejected") =>
            /\ pathSeq.pc = "failed"
            /\ EventsOf("join") = {}
       /\ (/\ \A j \in 1..2 : subOperations[j].settled = "resolved"
           /\ \E j \in 1..2 : subOperations[j].output.type # "bindings") =>
            /\ pathSeq.pc = "failed"
            /\ EventsOf("join") = {}

\* Both path operations resolved with solutions, the join was issued and
\* resolved, and the operator returned.
C14_Witness ==
  /\ pathSeq.called
  /\ pathSeq.pc = "done"
  /\ EventsOf("join") = {4}
  /\ Len(pathSeq.subOperations[1].output.bindingsStream) >= 1
  /\ Len(pathSeq.subOperations[2].output.bindingsStream) >= 1

\* The elements of a list other than one, in the list's order.
RECURSIVE Without(_, _)
Without(list, element) ==
  IF list = <<>> THEN <<>>
  ELSE (IF Head(list) = element THEN <<>> ELSE <<Head(list)>>)
         \o Without(Tail(list), element)

\* C23: the variables the operator returns are the join's variables other
\* than the generated one, in the join's order, whether or not the join's
\* variables hold the generated one; and it emits one bindings per bindings
\* of the join, in order, equal to it on every variable but the generated.
C23_OnlyGeneratedVariableRemoved ==
  (pathSeq.called /\ pathSeq.pc = "done") =>
    /\ pathSeq.output.variables =
         Without(pathSeq.join.variables, pathSeq.varName)
    /\ Len(pathSeq.output.bindingsStream) = Len(pathSeq.join.bindingsStream)
    /\ \A i \in 1..Len(pathSeq.join.bindingsStream) :
         LET item == pathSeq.join.bindingsStream[i]
             emitted == pathSeq.output.bindingsStream[i]
         IN /\ DOMAIN emitted = DOMAIN item \ {pathSeq.varName}
            /\ \A k \in DOMAIN emitted : emitted[k] = item[k]

(***************************************************************************)
(* Properties of the Runner, checked under SpecRunner                      *)
(***************************************************************************)
CallsOf(method) ==
  {c \in 1..Len(runner.calls) : runner.calls[c].method = method}

\* C15: Runner.run invokes runObservable only on an actor whose test of the
\* action has passed, never on one whose test failed or has not settled.
C15_RunOnlyAfterTestPassed ==
  \A c \in CallsOf("run") :
    \A a \in DOMAIN runner.calls[c].testAtRun :
      runner.calls[c].testAtRun[a] # "not run" =>
        runner.calls[c].testAtRun[a] = "passed"

\* C16: once Runner.initialize has resolved every actor of the list has
\* completed initialize, and whatever the calls of initialize, run and
\* deinitialize, initialize is invoked on no actor more than once.
C16_InitializedOnce ==
  /\ \A c \in CallsOf("initialize") :
       runner.calls[c].settled = "resolved" =>
         \A a \in runner.actors : runner.calls[c].promises[a] = "resolved"
  /\ \A a \in runner.actors : runner.initializeCalls[a] <= 1

(***************************************************************************)
(* Properties of the native http actor, checked under SpecHttp             *)
(***************************************************************************)
\* The user-agent headers the caller gave: those of init's headers, or of
\* the Request's when init has no headers.
CallerUserAgents(a) ==
  LET given ==
        IF "init" \in DOMAIN a /\ "headers" \in DOMAIN a.init
        THEN Headers(a.init.headers)
        ELSE IF ~a.input.string /\ "headers" \in DOMAIN a.input.request
             THEN a.input.request.headers
             ELSE NoHeaders
  IN {given[k] : k \in DOMAIN given \cap {"user-agent"}}

\* The url the caller asked for.
UrlOf(a) == IF a.input.string THEN a.input.value ELSE a.input.request.url

\* C17: the request carries the caller's user-agent header unchanged, the
\* actor's own when the caller gave none, and the withCredentials and auth
\* values given in init.
C17_HonorsInit ==
  http.called =>
    LET a == http.action
        options == http.options
    IN /\ has(options.headers, "user-agent")
       /\ options.headers["user-agent"] \in
            (IF CallerUserAgents(a) = {} THEN {userAgent}
             ELSE CallerUserAgents(a))
       /\ ("init" \in DOMAIN a /\ "withCredentials" \in DOMAIN a.init) =>
            /\ "withCredentials" \in DOMAIN options
            /\ options.withCredentials = a.init.withCredentials
       /\ ("init" \in DOMAIN a /\ "auth" \in DOMAIN a.init) =>
            /\ "auth" \in DOMAIN options
            /\ options.auth = a.init.auth

DataErrors ==
  {i \in 1..Len(serializer.data) : serializer.data[i] = "error"}

\* C19: when the bindings stream emits a single error, the data stream
\* emits one error event for it, never a second, and nothing after it.
C19_OneErrorThenNothing ==
  (serializer.called /\ serializer.sourceErrors = 1) =>
    /\ Cardinality(DataErrors) = 1
    /\ \A i \in DataErrors : i = Len(serializer.data)

(***************************************************************************)
(* Properties of the data source descriptors, checked under SpecDataSource *)
(***************************************************************************)
\* C20: the type of a string is '', of an object with match 'rdfjsSource',
\* of any other record its type field; the value of a string or an object
\* with match is the descriptor itself, of any other record its value; the
\* context is the given one for a string, an object with match and a record
\* without context, and otherwise the given one merged with the record's,
\* whose entries win on shared keys.
C20_DescriptorResolution ==
  dataSource.called =>
    LET ds == dataSource.dataSource
        raw == ds.string \/ "match" \in DOMAIN ds.object
        given == dataSource.context
    IN /\ ds.string => dataSource.type = JsValue("")
       /\ (~ds.string /\ raw) => dataSource.type = JsValue("rdfjsSource")
       /\ (~raw /\ "type" \in DOMAIN ds.object) =>
            dataSource.type = JsValue(ds.object.type)
       /\ (~raw /\ "type" \notin DOMAIN ds.object) =>
            dataSource.type = JsUndefined
       /\ raw => dataSource.value = ds
       /\ ~raw => dataSource.value = ds.object.value
       /\ (raw \/ "context" \notin DOMAIN ds.object) =>
            dataSource.resolved = given
       /\ (~raw /\ "context" \in DOMAIN ds.object) =>
            LET own == ds.object.context
            IN /\ DOMAIN dataSource.resolved = DOMAIN given \cup DOMAIN own
               /\ \A k \in DOMAIN own : dataSource.resolved[k] = own[k]
               /\ \A k \in DOMAIN given \ DOMAIN own :
                    dataSource.resolved[k] = given[k]

\* A record with a type and a context that shares a key with the given
\* context, and holds another, was resolved.
C20_Witness ==
  /\ dataSource.called
  /\ ~dataSource.dataSource.string
  /\ DOMAIN dataSource.dataSource.object = {"type", "value", "context"}
  /\ DOMAIN dataSource.dataSource.object.context = {"source"}
  /\ DOMAIN dataSource.context = {"source", "lenient"}
  /\ dataSource.type = JsValue("sparql")
  /\ dataSource.resolved["source"] = "of the source"
  /\ dataSource.resolved["lenient"] = "of the query"

(***************************************************************************)
(* The promise of the native http actor under the interleavings of its     *)
(* events, checked under SpecHttp                                          *)
(***************************************************************************)
\* The response emits its error in this step, before the deferred callback
\* has run.
ResponseErrorBeforeCallback ==
  /\ http.called
  /\ http.responded
  /\ ~http.responseErrored
  /\ http.immediate = "scheduled"
  /\ http'.responseErrored

\* The deferred callback runs in this step.
CallbackRuns ==
  /\ http.called
  /\ http.immediate = "scheduled"
  /\ http'.immediate = "ran"

\* The promise, once settled, stays as it settled.
SettlesAtMostOnce ==
  (http.called /\ http.promise # Pending) => http'.promise = http.promise

\* With no error before it, the deferred callback resolves the promise with
\* the output built from the response; after an error of the response it
\* does not resolve it.
CallbackResolves ==
  CallbackRuns =>
    /\ (~http.requestErrored /\ ~http.responseErrored) =>
         http'.promise = Resolved(httpOutput(http.options, http.response))
    /\ http.responseErrored =>
         /\ http'.promise = http.promise
         /\ http.promise.settled = "rejected"

\* C21 as stated: in every interleaving of the request's error, the
\* response, the response's error and the deferred callback, the promise
\* settles at most once; an error of the response before the deferred
\* callback rejects the promise with that error, and it is never resolved;
\* with no error before it the deferred callback resolves the promise with
\* the output of the response.
C21_RejectsWithResponseError ==
  [][/\ SettlesAtMostOnce
     /\ ResponseErrorBeforeCallback =>
          http'.promise = RejectedWith("response error")
     /\ CallbackResolves]_vars

\* C21, amended: as above, but an error of the response before the deferred
\* callback leaves the promise rejected: with that error when the promise
\* was pending, with the request's error when that had rejected it before.
C21_RejectsWithFirstError ==
  [][/\ SettlesAtMostOnce
     /\ ResponseErrorBeforeCallback =>
          /\ http'.promise.settled = "rejected"
          /\ http.promise = Pending =>
               http'.promise = RejectedWith("response error")
          /\ http.promise # Pending =>
               http'.promise = RejectedWith("request error")
     /\ CallbackResolves]_vars

\* The response emitted an error before the deferred callback, which then
\* ran and the request's error came last: the promise is rejected with the
\* response's error.
C21_Witness ==
  /\ http.called
  /\ http.responseErrored
  /\ http.requestErrored
  /\ http.immediate = "ran"
  /\ http.promise = RejectedWith("response error")

====
